---- MODULE Spec2Model ----
(***************************************************************************)
(* State-machine model of the CBUAE dormant-account dashboards.            *)
(*                                                                         *)
(* Each dashboard is a Streamlit script: one session runs one script, the  *)
(* script is re-run from the top after every widget event.  The variable   *)
(* `app` says which script the session runs.  A CSV file is a sequence of  *)
(* rows whose cells are strings (sequences of characters) or NaN (an empty *)
(* cell); dates are parsed from their characters, timestamps are seconds   *)
(* since 1970-01-01, years of inactivity are kept in hundredths.           *)
(***************************************************************************)
EXTENDS Integers, Sequences, FiniteSets, TLC

VARIABLES
    app,                  \* which script this session runs
    uploaded_file,        \* the file held by st.file_uploader (NoFile: none)
    today,                \* datetime.now() as read by the script
    accounts_df,          \* AccountInactivityChecker.accounts_df
    inactive_accounts,    \* AccountInactivityChecker.inactive_accounts
    results,              \* st.session_state.results
    categorized_results,  \* st.session_state.categorized_results
    summary_stats,        \* st.session_state.summary_stats
    params,               \* the sidebar widgets' values read by the last run
    filtered_df,          \* the table shown under the filters of the last run
    df,                   \* the module-level DataFrame of a one-page script
    view,                 \* the table / metrics that script displays
    outcome,              \* what the last run of the script reported
    calls                 \* the direct calls made, with their results

vars == <<app, uploaded_file, today, accounts_df, inactive_accounts, results,
          categorized_results, summary_stats, params, filtered_df, df, view,
          outcome, calls>>

-----------------------------------------------------------------------------
(* Strings.  A string is a sequence of one-character strings; the          *)
(* characters that occur in the modelled files, in ASCII order.            *)

Alphabet ==
    <<"-", "/", "0", "1", "2", "3", "4", "5", "6", "7", "8", "9", ":",
      "B", "D", "T">>

Ord(c) == CHOOSE i \in 1..Len(Alphabet) : Alphabet[i] = c

IsDigit(c) == c \in {"0", "1", "2", "3", "4", "5", "6", "7", "8", "9"}

DigitVal(c) == Ord(c) - Ord("0")

RECURSIVE StrLess(_, _)
\* Python's s < t on str: lexicographic by code point, a proper prefix is less.
StrLess(s, t) ==
    IF t = <<>> THEN FALSE
    ELSE IF s = <<>> THEN TRUE
    ELSE IF Head(s) # Head(t) THEN Ord(Head(s)) < Ord(Head(t))
    ELSE StrLess(Tail(s), Tail(t))

RECURSIVE AllDigits(_)
AllDigits(s) == s = <<>> \/ (IsDigit(Head(s)) /\ AllDigits(Tail(s)))

RECURSIVE ToInt(_)
ToInt(s) == IF s = <<>> THEN 0 ELSE ToInt(SubSeq(s, 1, Len(s) - 1)) * 10 + DigitVal(s[Len(s)])

\* str.split("T")[0]: the characters before the first "T" (all, if none).
RECURSIVE SplitT0(_)
SplitT0(s) ==
    IF s = <<>> \/ Head(s) = "T" THEN <<>> ELSE <<Head(s)>> \o SplitT0(Tail(s))

RECURSIVE Digits(_, _)
\* n written with w digits, zero padded (the "%0wd" of a date's text).
Digits(n, w) ==
    IF w = 0 THEN <<>>
    ELSE LET c == Alphabet[Ord("0") + (n % 10)]
         IN  Append(Digits(n \div 10, w - 1), c)

-----------------------------------------------------------------------------
(* Calendar: the proleptic Gregorian day number used by datetime.          *)

SecondsPerDay == 86400

IsLeap(y) == (y % 4 = 0 /\ y % 100 # 0) \/ y % 400 = 0

DaysInMonth(y, m) ==
    IF m = 2 THEN (IF IsLeap(y) THEN 29 ELSE 28)
    ELSE IF m \in {4, 6, 9, 11} THEN 30 ELSE 31

\* days from 1970-01-01 to y-m-d
DaysFromCivil(y, m, d) ==
    LET yy  == IF m <= 2 THEN y - 1 ELSE y
        era == yy \div 400
        yoe == yy - era * 400
        mp  == IF m > 2 THEN m - 3 ELSE m + 9
        doy == (153 * mp + 2) \div 5 + d - 1
        doe == yoe * 365 + yoe \div 4 - yoe \div 100 + doy
    IN  era * 146097 + doe - 719468

\* the y-m-d of day number z, as <<y, m, d>>
CivilFromDays(z) ==
    LET zz  == z + 719468
        era == zz \div 146097
        doe == zz - era * 146097
        yoe == (doe - doe \div 1460 + doe \div 36524 - doe \div 146096) \div 365
        doy == doe - (365 * yoe + yoe \div 4 - yoe \div 100)
        mp  == (5 * doy + 2) \div 153
        d   == doy - (153 * mp + 2) \div 5 + 1
        m   == IF mp < 10 THEN mp + 3 ELSE mp - 9
        y   == yoe + era * 400 + (IF m <= 2 THEN 1 ELSE 0)
    IN  <<y, m, d>>

\* "YYYY-MM-DD" of a day number
DateText(z) ==
    LET c == CivilFromDays(z)
    IN  Digits(c[1], 4) \o <<"-">> \o Digits(c[2], 2) \o <<"-">> \o Digits(c[3], 2)

\* "YYYY-MM-DDTHH:00:00"
DateTimeText(z, hh) == DateText(z) \o <<"T">> \o Digits(hh, 2) \o <<":", "0", "0", ":", "0", "0">>

\* year y, month m, day d as a day number, when there is such a date
CheckYMD(y, m, d) ==
    IF y >= 1 /\ m \in 1..12 /\ d \in 1..DaysInMonth(y, m)
    THEN [ok |-> TRUE, days |-> DaysFromCivil(y, m, d)]
    ELSE [ok |-> FALSE, days |-> 0]

\* The date "YYYY-MM-DD" of s as strptime(s, "%Y-%m-%d") reads it:
\* [ok |-> FALSE] when s is no such date, else the day number.
ParseYMD(s) ==
    IF /\ Len(s) = 10
       /\ s[5] = "-" /\ s[8] = "-"
       /\ AllDigits(SubSeq(s, 1, 4) \o SubSeq(s, 6, 7) \o SubSeq(s, 9, 10))
    THEN CheckYMD(ToInt(SubSeq(s, 1, 4)), ToInt(SubSeq(s, 6, 7)), ToInt(SubSeq(s, 9, 10)))
    ELSE [ok |-> FALSE, days |-> 0]

CheckHMS(h, mi, se) ==
    IF h < 24 /\ mi < 60 /\ se < 60
    THEN [ok |-> TRUE, secs |-> h * 3600 + mi * 60 + se]
    ELSE [ok |-> FALSE, secs |-> 0]

\* "HH:MM:SS" as seconds into the day
ParseHMS(s) ==
    IF /\ Len(s) = 8
       /\ s[3] = ":" /\ s[6] = ":"
       /\ AllDigits(SubSeq(s, 1, 2) \o SubSeq(s, 4, 5) \o SubSeq(s, 7, 8))
    THEN CheckHMS(ToInt(SubSeq(s, 1, 2)), ToInt(SubSeq(s, 4, 5)), ToInt(SubSeq(s, 7, 8)))
    ELSE [ok |-> FALSE, secs |-> 0]

\* A timestamp value: NaT, or seconds since 1970-01-01.
NaT == [nat |-> TRUE, ts |-> 0]

Timestamp(t) == [nat |-> FALSE, ts |-> t]

DateAndTime(p, q) == [ok |-> p.ok /\ q.ok, ts |-> p.days * SecondsPerDay + q.secs]

Midnight == [ok |-> TRUE, secs |-> 0]

\* pandas' reading of one ISO 8601 string ("YYYY-MM-DD", optionally followed
\* by "THH:MM:SS"): [ok |-> FALSE] when the string is not a date.
ParseDatetime(s) ==
    IF Len(s) = 19 /\ s[11] = "T"
    THEN DateAndTime(ParseYMD(SubSeq(s, 1, 10)), ParseHMS(SubSeq(s, 12, 19)))
    ELSE DateAndTime(ParseYMD(s), Midnight)

-----------------------------------------------------------------------------
(* Cells, rows and DataFrames.                                             *)

\* A cell of a text column: a str, or NaN for an empty CSV field.
NaN == [nan |-> TRUE, s |-> <<>>]

Str(s) == [nan |-> FALSE, s |-> s]

\* A cell of the Account Balance column: a number, or a str (v: the number
\* its digits spell, -1 when the text is not a number, such as "abc").
Num(n) == [ty |-> "int", v |-> n]

Text(n) == [ty |-> "str", v |-> n]

None == [none |-> TRUE]

DataFrame(cols, rws) == [none |-> FALSE, columns |-> cols, rows |-> rws]

IsNone(x) == x.none

\* DataFrame.empty
Empty(d) == d.rows = <<>>

CsvColumns ==
    {"Account_ID", "Account_Type", "Branch", "Customer_Type", "Account_Status",
     "Account_Balance", "Last_Transaction_Date", "KYC_Status",
     "Email_Contact_Attempt", "SMS_Contact_Attempt", "Phone_Call_Attempt"}

Range(f) == {f[i] : i \in DOMAIN f}

\* row r with column c set to v (added when absent)
SetCol(r, c, v) == [k \in (DOMAIN r) \cup {c} |-> IF k = c THEN v ELSE r[k]]

\* df[mask]: the rows satisfying P, in their order, same columns
Select(d, P(_)) == DataFrame(d.columns, SelectSeq(d.rows, P))

\* df[c] = f(row) for every row
Assign(d, c, F(_)) ==
    DataFrame(d.columns \cup {c}, [i \in DOMAIN d.rows |-> SetCol(d.rows[i], c, F(d.rows[i]))])

\* pd.read_csv: a column of numbers is numeric; one non-numeric field makes
\* the whole Account Balance column an object column of str.
read_csv(file) ==
    LET isObject == \E i \in DOMAIN file : file[i].Account_Balance.ty = "str"
        conv(r)  == IF isObject
                    THEN [r EXCEPT !.Account_Balance = Text(r.Account_Balance.v)]
                    ELSE r
    IN  DataFrame(CsvColumns, [i \in DOMAIN file |-> conv(file[i])])

\* one cell converted: NaN becomes NaT, a date its timestamp, and a str
\* that is no date is bad (it raises, or becomes NaT when coerced)
ConvertedCell(cell, q) ==
    IF cell.nan THEN [bad |-> FALSE, value |-> NaT]
    ELSE IF q.ok THEN [bad |-> FALSE, value |-> Timestamp(q.ts)]
    ELSE [bad |-> TRUE, value |-> NaT]

ConvertCell(cell) == ConvertedCell(cell, ParseDatetime(cell.s))

\* pd.to_datetime(df['Last Transaction Date']) with errors='raise' (the
\* default) or errors='coerce', assigned back to the column
to_datetime(d, coerce) ==
    IF ~coerce /\ \E i \in DOMAIN d.rows : ConvertCell(d.rows[i].Last_Transaction_Date).bad
    THEN [raised |-> TRUE, df |-> d]
    ELSE [raised |-> FALSE,
          df |-> DataFrame(d.columns,
                    [i \in DOMAIN d.rows |->
                        [d.rows[i] EXCEPT !.Last_Transaction_Date =
                            ConvertCell(d.rows[i].Last_Transaction_Date).value]])]

-----------------------------------------------------------------------------
(* AccountInactivityChecker (3yearsinactivityad.py).                       *)

DaysPerYear == 365

\* load_account_data: accounts_df is assigned by read_csv before the date
\* conversion, so a failed conversion leaves the unconverted table behind.
load_account_data(file) ==
    LET cv == to_datetime(read_csv(file), FALSE)
    IN  [ret |-> ~cv.raised, accounts_df |-> cv.df]

\* timedelta(days=inactivity_years * 365), in seconds (years in hundredths)
InactivityDelta(inactivity_years) == inactivity_years * DaysPerYear * (SecondsPerDay \div 100)

\* DateBefore with NaT counted as before every cutoff
DateBefore_nat(date, cutoff) == date.nat \/ date.ts < cutoff

\* Series < Timestamp: False for NaT
DateBefore(date, cutoff) == ~date.nat /\ date.ts < cutoff

\* (today - date).dt.days: the whole days of the difference
DaysBetween(now, date) == (now - date.ts) \div SecondsPerDay

\* (days / 365).round(2), in hundredths of a year
YearsRounded(days) == (days * 200 + DaysPerYear) \div (2 * DaysPerYear)

\* the permutations of 1..n
Perms(n) == {p \in [1..n -> 1..n] : \A i, j \in 1..n : i # j => p[i] # p[j]}

\* sort_values_desc with ascending=True
sort_values_asc(d) ==
    LET n == Len(d.rows)
    IN  { DataFrame(d.columns, [i \in 1..n |-> d.rows[p[i]]]) :
            p \in {q \in Perms(n) :
                     \A i \in 1..n - 1 :
                        d.rows[q[i]].days_inactive <= d.rows[q[i + 1]].days_inactive} }

\* sort_values('days_inactive', ascending=False) with the default quicksort:
\* every ordering of the rows by non-increasing days_inactive (ties in any
\* order, the sort is not stable).
sort_values_desc(d) ==
    LET n == Len(d.rows)
    IN  { DataFrame(d.columns, [i \in 1..n |-> d.rows[p[i]]]) :
            p \in {q \in Perms(n) :
                     \A i \in 1..n - 1 :
                        d.rows[q[i]].days_inactive >= d.rows[q[i + 1]].days_inactive} }

\* identify_inactive_accounts on a loaded table: the set of tables it may
\* return (and store in self.inactive_accounts).
identify_inactive_accounts(adf, now, inactivity_years, account_types) ==
    LET cutoff_date == now - InactivityDelta(inactivity_years)
        keep(r) == /\ r.Account_Type \in account_types
                   /\ DateBefore(r.Last_Transaction_Date, cutoff_date)
        sel  == Select(adf, keep)
        d1   == Assign(sel, "days_inactive",
                       LAMBDA r : DaysBetween(now, r.Last_Transaction_Date))
        d2   == Assign(d1, "years_inactive", LAMBDA r : YearsRounded(r.days_inactive))
    IN  sort_values_desc(d2)

\* determine_category with the LOW and MEDIUM labels interchanged
determine_category_swapped(years_inactive, low_years, medium_years, high_years) ==
    IF years_inactive > high_years THEN "HIGH"
    ELSE IF years_inactive > medium_years THEN "LOW"
    ELSE IF years_inactive > low_years THEN "MEDIUM"
    ELSE "MONITOR"

\* determine_category with >= where the code has >
determine_category_inclusive(years_inactive, low_years, medium_years, high_years) ==
    IF years_inactive >= high_years THEN "HIGH"
    ELSE IF years_inactive >= medium_years THEN "MEDIUM"
    ELSE IF years_inactive >= low_years THEN "LOW"
    ELSE "MONITOR"

determine_category(years_inactive, low_years, medium_years, high_years) ==
    IF years_inactive > high_years THEN "HIGH"
    ELSE IF years_inactive > medium_years THEN "MEDIUM"
    ELSE IF years_inactive > low_years THEN "LOW"
    ELSE "MONITOR"

determine_contact_status(row) ==
    LET attempts == (IF row.Email_Contact_Attempt = "Yes" THEN 1 ELSE 0)
                  + (IF row.SMS_Contact_Attempt = "Yes" THEN 1 ELSE 0)
                  + (IF row.Phone_Call_Attempt = "Yes" THEN 1 ELSE 0)
    IN  IF attempts = 0 THEN "No Contact"
        ELSE IF attempts < 3 THEN "Partial Contact"
        ELSE "Full Contact"

HighAmount == 300000

MediumAmount == 100000

TypeError == "TypeError"

\* determine_amount with >= for both comparisons
determine_amount_inclusive(balance) ==
    IF balance.ty = "str" THEN TypeError
    ELSE IF balance.v >= HighAmount THEN "HIGH"
    ELSE IF balance.v >= MediumAmount THEN "MEDIUM"
    ELSE "LOW"

\* balance > 300000 on a str balance raises TypeError
determine_amount(balance) ==
    IF balance.ty = "str" THEN TypeError
    ELSE IF balance.v > HighAmount THEN "HIGH"
    ELSE IF balance.v > MediumAmount THEN "MEDIUM"
    ELSE "LOW"

\* result_df, unless one of its balances raised
Categorized(result_df) ==
    IF \E i \in DOMAIN result_df.rows : result_df.rows[i].amount_category = TypeError
    THEN [raised |-> TRUE, ret |-> None]
    ELSE [raised |-> FALSE, ret |-> result_df]

\* categorize_by_inactivity: None for an unset or empty inactive_accounts;
\* the TypeError of determine_amount ends the call.
categorize_by_inactivity(inactive, low_years, medium_years, high_years) ==
    IF IsNone(inactive) \/ Empty(inactive)
    THEN [raised |-> FALSE, ret |-> None]
    ELSE LET r1 == Assign(inactive, "inactivity_category",
                     LAMBDA r : determine_category(r.years_inactive, low_years,
                                                   medium_years, high_years))
             r2 == Assign(r1, "contact_status", determine_contact_status)
             r3 == Assign(r2, "amount_category",
                     LAMBDA r : determine_amount(r.Account_Balance))
         IN  Categorized(r3)

\* an empty field of the file: read_csv reads it as NaN
Blank == ""

\* Series.value_counts().to_dict(): dropna is left at its default, so a
\* missing value is no key and its rows are counted nowhere
value_counts(d, c) ==
    [v \in {d.rows[i][c] : i \in DOMAIN d.rows} \ {Blank} |->
        Cardinality({i \in DOMAIN d.rows : d.rows[i][c] = v})]

RECURSIVE SumBalance(_)
SumBalance(rws) ==
    IF rws = <<>> THEN 0 ELSE Head(rws).Account_Balance.v + SumBalance(Tail(rws))

Max(S) == CHOOSE x \in S : \A y \in S : y <= x

Min(S) == CHOOSE x \in S : \A y \in S : x <= y

\* get_summary_stats over self.inactive_accounts; `keys` are the keys of
\* the returned dict.  avg_balance is kept as <<sum, count>>.
get_summary_stats(inactive) ==
    IF IsNone(inactive) \/ Empty(inactive) THEN None
    ELSE LET opt(c) == IF c \in inactive.columns THEN value_counts(inactive, c) ELSE <<>>
             bal == {inactive.rows[i].Account_Balance.v : i \in DOMAIN inactive.rows}
         IN  [none |-> FALSE,
              keys |-> {"type_counts", "branch_counts", "customer_type_counts",
                        "avg_balance", "total_balance", "max_balance", "min_balance"}
                       \cup (IF "inactivity_category" \in inactive.columns
                             THEN {"category_counts"} ELSE {})
                       \cup (IF "amount_category" \in inactive.columns
                             THEN {"amount_counts"} ELSE {})
                       \cup (IF "contact_status" \in inactive.columns
                             THEN {"contact_counts"} ELSE {}),
              type_counts |-> value_counts(inactive, "Account_Type"),
              branch_counts |-> value_counts(inactive, "Branch"),
              customer_type_counts |-> value_counts(inactive, "Customer_Type"),
              category_counts |-> opt("inactivity_category"),
              amount_counts |-> opt("amount_category"),
              contact_counts |-> opt("contact_status"),
              avg_balance |-> <<SumBalance(inactive.rows), Len(inactive.rows)>>,
              total_balance |-> SumBalance(inactive.rows),
              max_balance |-> Max(bal),
              min_balance |-> Min(bal)]

\* Series.unique() as a set
unique(d, c) == {d.rows[i][c] : i \in DOMAIN d.rows}

\* the multiselects' default: every value of the column selected
DefaultFilters(cat) ==
    [account_type_filter |-> unique(cat, "Account_Type"),
     branch_filter |-> unique(cat, "Branch"),
     customer_type_filter |-> unique(cat, "Customer_Type"),
     category_filter |-> unique(cat, "inactivity_category"),
     amount_filter |-> unique(cat, "amount_category")]

\* ApplyFilters with the category and amount masks applied to an empty
\* selection as well
ApplyFilters_isin(cat, f) ==
    Select(cat, LAMBDA r : /\ r.Account_Type \in f.account_type_filter
                           /\ r.Branch \in f.branch_filter
                           /\ r.Customer_Type \in f.customer_type_filter
                           /\ r.inactivity_category \in f.category_filter
                           /\ r.amount_category \in f.amount_filter)

\* the Data Table tab: the three isin masks, then the category and amount
\* filters, each applied only when its selection is truthy (non-empty)
ApplyFilters(cat, f) ==
    LET d1 == Select(cat, LAMBDA r : /\ r.Account_Type \in f.account_type_filter
                                     /\ r.Branch \in f.branch_filter
                                     /\ r.Customer_Type \in f.customer_type_filter)
        d2 == IF f.category_filter # {}
              THEN Select(d1, LAMBDA r : r.inactivity_category \in f.category_filter)
              ELSE d1
    IN  IF f.amount_filter # {}
        THEN Select(d2, LAMBDA r : r.amount_category \in f.amount_filter)
        ELSE d2

-----------------------------------------------------------------------------
(* main() of 3yearsinactivityad.py: one run of the script.                 *)

NoFile == [none |-> TRUE, rows |-> <<>>]

File(rws) == [none |-> FALSE, rows |-> rws]

\* what a run reports: how load_account_data ended, whether the Run
\* Analysis branch ran, whether an uncaught exception ended the run, whether
\* the run stored categorized_results, and the st.error / st.warning shown
Outcome(load, ran, raised, categorized, messages) ==
    [load |-> load, ran |-> ran, raised |-> raised, categorized |-> categorized,
     messages |-> messages]

NoRun == Outcome("none", FALSE, FALSE, FALSE, {})

Session(adf, inactive, res, cat, stats, o) ==
    [accounts_df |-> adf, inactive_accounts |-> inactive, results |-> res,
     categorized_results |-> cat, summary_stats |-> stats, outcome |-> o]

\* the Run Analysis branch, identify_inactive_accounts having returned res
\* and categorize_by_inactivity cat
analysis(adf, res, cat) ==
    IF Empty(res)
    THEN Session(adf, res, results, categorized_results, summary_stats,
                 Outcome("ok", TRUE, FALSE, FALSE, {"No inactive accounts found"}))
    ELSE IF cat.raised
    THEN Session(adf, res, res, categorized_results, summary_stats,
                 Outcome("ok", TRUE, TRUE, FALSE, {}))
    ELSE Session(adf, res, res, cat.ret, get_summary_stats(res),
                 Outcome("ok", TRUE, FALSE, TRUE, {}))

\* main() after load_account_data returned ld
main_loaded(ld, click, p) ==
    IF ~ld.ret
    THEN {Session(ld.accounts_df, inactive_accounts, results, categorized_results,
                  summary_stats,
                  Outcome("failed", FALSE, FALSE, FALSE, {"Error loading account data"}))}
    ELSE IF ~click
    THEN {Session(ld.accounts_df, inactive_accounts, results, categorized_results,
                  summary_stats, Outcome("ok", FALSE, FALSE, FALSE, {}))}
    ELSE { analysis(ld.accounts_df, res,
                    categorize_by_inactivity(res, p.low_years, p.medium_years, p.high_years)) :
             res \in identify_inactive_accounts(ld.accounts_df, today, p.inactivity_years,
                                                p.account_types) }

\* The state a run of main() leaves, as the set of records it may produce:
\* file is the uploaded file, click whether the Run Analysis button was
\* pressed, p the sidebar parameters.
main(file, click, p) ==
    IF file.none
    THEN {Session(accounts_df, inactive_accounts, results, categorized_results,
                  summary_stats, NoRun)}
    ELSE main_loaded(load_account_data(file.rows), click, p)

\* The Data Table tab of a run that reached the display section: the table
\* under the filters, with the selection that produced it.
NotShown == [none |-> TRUE]

DataTable(o, f) ==
    IF /\ ~o.outcome.raised
       /\ ~IsNone(o.results) /\ ~Empty(o.results)
       /\ ~IsNone(o.categorized_results)
    THEN [none |-> FALSE, filters |-> f, df |-> ApplyFilters(o.categorized_results, f)]
    ELSE NotShown

\* the Export tab's report subsets of categorized_results
Reports(cat) ==
    [none |-> FALSE,
     high_df |-> Select(cat, LAMBDA r : r.inactivity_category = "HIGH"),
     savings_df |-> Select(cat, LAMBDA r : r.Account_Type = "Savings/Call/Current"),
     no_contact_df |-> Select(cat, LAMBDA r : r.contact_status = "No Contact"),
     high_amount_df |-> Select(cat, LAMBDA r : r.amount_category = "HIGH"),
     category_df |-> [category \in unique(cat, "inactivity_category") |->
                         Select(cat, LAMBDA r : r.inactivity_category = category)]]

\* The Export tab of the page that ends a run in state o.
Export(o) ==
    IF /\ ~o.outcome.raised
       /\ ~IsNone(o.results) /\ ~Empty(o.results)
       /\ ~IsNone(o.categorized_results)
    THEN Reports(o.categorized_results)
    ELSE NotShown

-----------------------------------------------------------------------------
(* The one-page scripts.  Each run recomputes everything from the file.    *)

\* str.lower() over the strings of the modelled files
Lower(x) ==
    CASE x = "Yes" -> "yes"
      [] x = "YES" -> "yes"
      [] x = "No" -> "no"
      [] x = "NO" -> "no"
      [] x = "Dormant" -> "dormant"
      [] x = "Active" -> "active"
      [] x = "Savings/Call/Current" -> "savings/call/current"
      [] x = "Fixed Deposit" -> "fixed deposit"
      [] x = "Investment" -> "investment"
      [] x = "Safe Deposit" -> "safe deposit"
      [] OTHER -> x

\* Series.str.contains(pat, case=False) for the patterns the scripts use:
\* none of the modelled account types holds a pattern as a proper substring
str_contains(x, pat) == Lower(x) = Lower(pat)

ThresholdYears == 3

\* datetime.now() - timedelta(days=3 * 365)
threshold_date(now) == now - ThresholdYears * DaysPerYear * SecondsPerDay

\* the violations table of a converted table d (pat: the account type
\* looked for)
violations(d, now, pat) ==
    Select(Select(d, LAMBDA r : str_contains(r.Account_Type, pat)),
           LAMBDA r : /\ DateBefore(r.Last_Transaction_Date, threshold_date(now))
                      /\ Lower(r.Email_Contact_Attempt) = "no"
                      /\ Lower(r.SMS_Contact_Attempt) = "no"
                      /\ Lower(r.Phone_Call_Attempt) = "no")

investment_page(d, now, pat) ==
    [df |-> d, view |-> violations(d, now, pat),
     outcome |-> Outcome("ok", TRUE, FALSE, FALSE, {})]

\* one run of investment_inactivity.py or safe_depositbox.py: the dates are
\* converted with errors='coerce'
investment_run(file, now, pat) ==
    investment_page(to_datetime(read_csv(file), TRUE).df, now, pat)

\* ---- inactive_account.py

\* the three contact columns of df replaced by their lower case: the
\* assignments are made on df itself
lowered(d) ==
    DataFrame(d.columns,
              [i \in DOMAIN d.rows |->
                  [d.rows[i] EXCEPT !.Email_Contact_Attempt = Lower(@),
                                    !.SMS_Contact_Attempt = Lower(@),
                                    !.Phone_Call_Attempt = Lower(@)]])

\* unreachable_dormant, computed from the lowered df
unreachable_dormant(d) ==
    Select(Select(d, LAMBDA r : /\ r.Email_Contact_Attempt = "no"
                                /\ r.SMS_Contact_Attempt = "no"
                                /\ r.Phone_Call_Attempt = "no"),
           LAMBDA r : Lower(r.Account_Status) = "dormant")

\* the page of inactive_account.py: d is df after the date conversion, low
\* is df after the three assignments
inactive_account_page(d, low, now) ==
    [df |-> low,
     view |-> [inactive_investments |-> violations(d, now, "Investment"),
               unreachable_dormant |-> unreachable_dormant(low)],
     outcome |-> Outcome("ok", TRUE, FALSE, FALSE, {})]

inactive_account_converted(d, now) == inactive_account_page(d, lowered(d), now)

\* one run of inactive_account.py
inactive_account_run(file, now) ==
    inactive_account_converted(to_datetime(read_csv(file), TRUE).df, now)

\* ---- fdinactivity.py

NaNDays == [nan |-> TRUE, v |-> 0]

Days(n) == [nan |-> FALSE, v |-> n]

\* days / 365.25 compared with a whole number of years: False for NaN
YearsAtLeast(days, y) == ~days.nan /\ days.v * 100 >= y * 36525

YearsBelow(days, y) == ~days.nan /\ days.v * 100 < y * 36525

\* np.select(conditions, choices, default='Unknown')
maturity_status(days) ==
    IF YearsBelow(days, 1) THEN "Active"
    ELSE IF YearsAtLeast(days, 1) /\ YearsBelow(days, 2) THEN "Approaching Inactivity"
    ELSE IF YearsAtLeast(days, 2) /\ YearsBelow(days, 3) THEN "High Risk"
    ELSE IF YearsAtLeast(days, 3) THEN "Inactive"
    ELSE "Unknown"

\* calculate_maturity_status after the date conversion cv.  The columns are
\* assigned on the argument df itself, and df is what is returned: the
\* caller's table and the result are one object.
matured(cv, now) ==
    IF cv.raised THEN cv
    ELSE LET d1 == Assign(cv.df, "Days_Since_Last_Transaction",
                     LAMBDA r : IF r.Last_Transaction_Date.nat THEN NaNDays
                                ELSE Days(DaysBetween(now, r.Last_Transaction_Date)))
             d2 == Assign(d1, "Inactive_Flag",
                     LAMBDA r : YearsAtLeast(r.Days_Since_Last_Transaction, 3))
         IN  [raised |-> FALSE,
              df |-> Assign(d2, "Maturity_Status",
                            LAMBDA r : maturity_status(r.Days_Since_Last_Transaction))]

\* calculate_maturity_status(df): raises when a date does not parse
calculate_maturity_status(d, now) == matured(to_datetime(d, FALSE), now)

\* inactive_value is the sum of the inactive balances; over an object column
\* of str the sum is a str
generate_account_summary(d) ==
    LET fd_accounts == Select(d, LAMBDA r : r.Account_Type = "Fixed Deposit")
        inactive    == Select(fd_accounts, LAMBDA r : r.Inactive_Flag)
    IN  [total_fd |-> Len(fd_accounts.rows),
         inactive_fd |-> Len(inactive.rows),
         active_fd |-> Len(fd_accounts.rows) - Len(inactive.rows),
         inactive_value |-> IF \E i \in DOMAIN inactive.rows :
                                    inactive.rows[i].Account_Balance.ty = "str"
                               THEN Text(-1)
                               ELSE Num(SumBalance(inactive.rows))]

get_contact_summary(d) ==
    LET inactive_fd == Select(d, LAMBDA r : r.Account_Type = "Fixed Deposit" /\ r.Inactive_Flag)
        count(P(_)) == Len(SelectSeq(inactive_fd.rows, P))
    IN  [email_attempts |-> count(LAMBDA r : r.Email_Contact_Attempt = "Yes"),
         sms_attempts |-> count(LAMBDA r : r.SMS_Contact_Attempt = "Yes"),
         phone_attempts |-> count(LAMBDA r : r.Phone_Call_Attempt = "Yes"),
         no_contact |-> count(LAMBDA r : /\ r.Email_Contact_Attempt = "No"
                                         /\ r.SMS_Contact_Attempt = "No"
                                         /\ r.Phone_Call_Attempt = "No"),
         total |-> Len(inactive_fd.rows)]

\* the Account Details tab: each filter applied only when its selection
\* is truthy (non-empty)
fd_filter(d, status_filter, branch_filter) ==
    LET fd_accounts == Select(d, LAMBDA r : r.Account_Type = "Fixed Deposit")
        f1 == IF status_filter # {}
              THEN Select(fd_accounts, LAMBDA r : r.Maturity_Status \in status_filter)
              ELSE fd_accounts
    IN  IF branch_filter # {}
        THEN Select(f1, LAMBDA r : r.Branch \in branch_filter)
        ELSE f1

\* count / total * 100 as the fraction <<100 * count, total>>
Percent(count, total) == <<100 * count, total>>

ZeroPercent == <<0, 1>>

\* the Dashboard tab, with the guarded percentages
dashboard(su, cs) ==
    [none |-> FALSE,
     summary |-> su,
     contact_summary |-> cs,
     inactive_percent |-> IF su.total_fd > 0
                          THEN Percent(su.inactive_fd, su.total_fd)
                          ELSE ZeroPercent,
     percentages |-> IF cs.total > 0
                     THEN <<Percent(cs.email_attempts, cs.total),
                            Percent(cs.sms_attempts, cs.total),
                            Percent(cs.phone_attempts, cs.total),
                            Percent(cs.no_contact, cs.total)>>
                     ELSE <<ZeroPercent, ZeroPercent, ZeroPercent, ZeroPercent>>]

\* the Account Details multiselects: options and defaults
FdDefaultFilters(d) ==
    [status_filter |-> {"Inactive"}, branch_filter |-> unique(d, "Branch")]

\* the tabs of a run whose table d was computed.  st.multiselect raises when
\* its default ['Inactive'] is not among its options, the statuses in d.
fd_tabs(d, dash, g) ==
    IF "Inactive" \notin unique(d, "Maturity_Status")
    THEN [df |-> d, view |-> [dashboard |-> dash, details |-> NotShown],
          outcome |-> Outcome("ok", TRUE, FALSE, FALSE, {"Error processing the file"})]
    ELSE [df |-> d,
          view |-> [dashboard |-> dash,
                    details |-> [none |-> FALSE, filters |-> g,
                                 df |-> fd_filter(d, g.status_filter, g.branch_filter)]],
          outcome |-> Outcome("ok", TRUE, FALSE, FALSE, {})]

\* the page after the summaries su and cs were computed: formatting
\* inactive_value with :,.2f raises ValueError for a str
fd_summarised(d, su, cs, g) ==
    IF su.inactive_value.ty = "str"
    THEN [df |-> d, view |-> [dashboard |-> None, details |-> NotShown],
          outcome |-> Outcome("ok", TRUE, FALSE, FALSE, {"Error processing the file"})]
    ELSE fd_tabs(d, dashboard(su, cs), g)

\* the page after calculate_maturity_status returned cm.  The whole body is
\* inside try/except Exception: an exception ends the run with st.error.
fd_page(cm, g) ==
    IF cm.raised
    THEN [df |-> cm.df, view |-> [dashboard |-> None, details |-> NotShown],
          outcome |-> Outcome("ok", TRUE, FALSE, FALSE, {"Error processing the file"})]
    ELSE fd_summarised(cm.df, generate_account_summary(cm.df), get_contact_summary(cm.df), g)

\* One run of fdinactivity.py on an uploaded file, the Account Details
\* multiselects holding the selections g.
fd_run(file, now, g) == fd_page(calculate_maturity_status(read_csv(file), now), g)

\* the run an upload starts: the multiselects hold their defaults
fd_default(cm) == fd_page(cm, FdDefaultFilters(cm.df))

fd_first_run(file, now) == fd_default(calculate_maturity_status(read_csv(file), now))

\* ---- dormantacctransfer.py

AttributeError == [raised |-> "AttributeError"]

\* clean_date: NaN (a float) has no split, an AttributeError the except
\* clause does not catch; a str that is no %Y-%m-%d date gives None
clean_date(date_string) ==
    IF date_string.nan THEN AttributeError
    ELSE LET q == ParseYMD(SplitT0(date_string.s))
         IN  IF q.ok THEN Timestamp(q.days * SecondsPerDay) ELSE NaT

TransferCutoff == <<"2", "0", "2", "0", "-", "0", "4", "-", "2", "4">>

check_transfer_eligibility(last_transaction_date) ==
    LET cutoff_date == ParseYMD(TransferCutoff).days * SecondsPerDay
    IN  IF ~last_transaction_date.nat /\ last_transaction_date.ts <= cutoff_date
        THEN "Eligible for Transfer"
        ELSE "Not Eligible"

\* the page: df.apply(clean_date) over raw gave cleaned
transfer_page(raw, cleaned) ==
    IF \E i \in DOMAIN cleaned.rows : cleaned.rows[i].Last_Transaction_Date = AttributeError
    THEN [df |-> raw, view |-> None, outcome |-> Outcome("ok", TRUE, TRUE, FALSE, {})]
    ELSE LET d2 == Assign(cleaned, "Transfer_Status",
                      LAMBDA r : check_transfer_eligibility(r.Last_Transaction_Date))
         IN  [df |-> d2,
              view |-> Select(d2, LAMBDA r : r.Transfer_Status = "Eligible for Transfer"),
              outcome |-> Outcome("ok", TRUE, FALSE, FALSE, {})]

transfer_cleaned(raw) ==
    transfer_page(raw, Assign(raw, "Last_Transaction_Date",
                              LAMBDA r : clean_date(r.Last_Transaction_Date)))

\* one run of dormantacctransfer.py
transfer_run(file) == transfer_cleaned(read_csv(file))

\* ---- freezeaccount.py

FreezeCutoff == <<"2", "0", "2", "2", "-", "0", "1", "-", "0", "1">>

\* transaction_date < "2022-01-01" is str against str; against NaN (a float)
\* it raises TypeError.  The conjunction short-circuits: the date is
\* compared only for a Dormant row.
freeze_account(account_status, transaction_date, kyc_status) ==
    IF account_status # "Dormant" THEN "Active"
    ELSE IF transaction_date.nan THEN TypeError
    ELSE IF StrLess(transaction_date.s, FreezeCutoff) /\ kyc_status = "Expired" THEN "Frozen"
    ELSE "Active"

\* the page: df.apply(freeze_account) over raw gave d1
freeze_page(raw, d1) ==
    IF \E i \in DOMAIN d1.rows : d1.rows[i].Freeze_Status = TypeError
    THEN [df |-> raw, view |-> None, outcome |-> Outcome("ok", TRUE, TRUE, FALSE, {})]
    ELSE [df |-> d1,
          view |-> Select(d1, LAMBDA r : r.Freeze_Status = "Frozen"),
          outcome |-> Outcome("ok", TRUE, FALSE, FALSE, {})]

freeze_applied(raw) ==
    freeze_page(raw, Assign(raw, "Freeze_Status",
                            LAMBDA r : freeze_account(r.Account_Status, r.Last_Transaction_Date,
                                                      r.KYC_Status)))

\* one run of freezeaccount.py
freeze_run(file) == freeze_applied(read_csv(file))

\* ---- dormantledger.py

LedgerCutoff == <<"2", "0", "2", "1", "-", "1", "2", "-", "3", "1">>

LedgerAmount == 100000

\* classify_ledger with the balance compared by >= and <
classify_ledger_inclusive(account_balance, transaction_date) ==
    IF account_balance.ty = "str" \/ transaction_date.nan THEN TypeError
    ELSE IF account_balance.v >= LedgerAmount /\ StrLess(transaction_date.s, LedgerCutoff)
    THEN "High-Value Dormant Ledger"
    ELSE IF account_balance.v < LedgerAmount /\ StrLess(transaction_date.s, LedgerCutoff)
    THEN "Low-Value Dormant Ledger"
    ELSE "Standard Dormant Ledger"

\* balance > 100000 raises TypeError for a str balance; then one of the two
\* branches compares the date with the cutoff text, a TypeError for NaN
classify_ledger(account_balance, transaction_date) ==
    IF account_balance.ty = "str" \/ transaction_date.nan THEN TypeError
    ELSE IF account_balance.v > LedgerAmount /\ StrLess(transaction_date.s, LedgerCutoff)
    THEN "High-Value Dormant Ledger"
    ELSE IF account_balance.v <= LedgerAmount /\ StrLess(transaction_date.s, LedgerCutoff)
    THEN "Low-Value Dormant Ledger"
    ELSE "Standard Dormant Ledger"

\* df.apply(classify_ledger): raised when a row raised
classified(raw, d1) ==
    IF \E i \in DOMAIN d1.rows : d1.rows[i].Dormant_Ledger_Category = TypeError
    THEN [raised |-> TRUE, df |-> raw]
    ELSE [raised |-> FALSE, df |-> d1]

ledger_applied(raw) ==
    classified(raw, Assign(raw, "Dormant_Ledger_Category",
                   LAMBDA r : classify_ledger(r.Account_Balance, r.Last_Transaction_Date)))

\* the page with the selectbox at ledger_category
ledger_page(c, ledger_category) ==
    IF c.raised
    THEN [df |-> c.df, view |-> None, outcome |-> Outcome("ok", TRUE, TRUE, FALSE, {})]
    ELSE [df |-> c.df,
          view |-> [none |-> FALSE, ledger_category |-> ledger_category,
                    df |-> Select(c.df, LAMBDA r : r.Dormant_Ledger_Category = ledger_category)],
          outcome |-> Outcome("ok", TRUE, FALSE, FALSE, {})]

\* one run of dormantledger.py with the selectbox at ledger_category
ledger_run(file, ledger_category) == ledger_page(ledger_applied(read_csv(file)), ledger_category)

\* st.selectbox holds its first option until the user picks another
ledger_default(c) ==
    ledger_page(c, IF c.raised \/ Empty(c.df) THEN ""
                   ELSE c.df.rows[1].Dormant_Ledger_Category)

ledger_first_run(file) == ledger_default(ledger_applied(read_csv(file)))

-----------------------------------------------------------------------------
(* Inputs: the clock, the files and the widget values.                     *)

\* datetime.now(): 2025-04-24 12:00:00
Now == DaysFromCivil(2025, 4, 24) * SecondsPerDay + 12 * 3600

\* the text of the date k days before today, and of that day at hh o'clock
Aged(k) == Str(DateText(DaysFromCivil(2025, 4, 24) - k))

AgedAt(k, hh) == Str(DateTimeText(DaysFromCivil(2025, 4, 24) - k, hh))

Row(id, type, branch, ctype, status, balance, date, kyc, email, sms, phone) ==
    [Account_ID |-> id, Account_Type |-> type, Branch |-> branch,
     Customer_Type |-> ctype, Account_Status |-> status, Account_Balance |-> balance,
     Last_Transaction_Date |-> date, KYC_Status |-> kyc,
     Email_Contact_Attempt |-> email, SMS_Contact_Attempt |-> sms,
     Phone_Call_Attempt |-> phone]

Apps ==
    {"checker", "fd", "investment", "safe_deposit", "inactive_account", "transfer",
     "freeze", "ledger"}

\* the account type a script looks for, and one it does not
OwnType(a) ==
    CASE a = "fd" -> "Fixed Deposit"
      [] a = "investment" -> "Investment"
      [] a = "inactive_account" -> "Investment"
      [] a = "safe_deposit" -> "Safe Deposit"
      [] OTHER -> "Savings/Call/Current"

OtherType(a) == IF a = "fd" THEN "Savings/Call/Current" ELSE "Fixed Deposit"

Unparseable == <<"T", "B", "D">>

\* The rows the multi-row files are made of: three dated accounts, one with
\* an empty date, one with a date that is no date, one with a balance that
\* is no number.
SmallRows(a) ==
    { Row("ACC1", OwnType(a), "Main Branch", "Individual", "Dormant", Num(350000),
          Aged(1534), "Expired", "Yes", "No", "No"),
      Row("ACC2", OwnType(a), "Downtown", "Business", "Dormant", Num(100000),
          Aged(1096), "Valid", "No", "No", "No"),
      Row("ACC3", OtherType(a), "Main Branch", "Individual", "Active", Num(50000),
          Aged(2200), "Expired", "Yes", "Yes", "Yes"),
      Row("ACC4", OwnType(a), "Main Branch", "Individual", "Dormant", Num(350000),
          NaN, "Expired", "No", "No", "No"),
      Row("ACC5", OwnType(a), "Downtown", "Individual", "Dormant", Num(350000),
          Str(Unparseable), "Expired", "No", "No", "No"),
      Row("ACC6", OwnType(a), "Main Branch", "Individual", "Dormant", Text(-1),
          Aged(1534), "Expired", "Yes", "No", "No") }

\* days of inactivity around the tier boundaries, the one-, two- and
\* three-year bands of 365.25 days, the inactivity cutoff and the fixed
\* cutoffs 2022-01-01, 2021-12-31 and 2020-04-24
BoundaryAges ==
    {100, 365, 366, 730, 731, 1095, 1096, 1209, 1210, 1211, 1460, 1461, 1464, 1825, 1826,
     1829}

FlagValues == {"Yes", "No", "yes"}

BoundaryBalances == {100000, 100001, 300000, 300001}

\* One-row variations of the first account: its date, its contact flags,
\* its balance.
RichRows(a) ==
    LET base == Row("ACC1", OwnType(a), "Main Branch", "Individual", "Dormant",
                    Num(350000), Aged(1534), "Expired", "Yes", "No", "No")
    IN  { [base EXCEPT !.Last_Transaction_Date = Aged(k)] : k \in BoundaryAges }
        \cup { [base EXCEPT !.Last_Transaction_Date = AgedAt(1095, 12)],
               [base EXCEPT !.Last_Transaction_Date = AgedAt(1096, 18)],
               [base EXCEPT !.Last_Transaction_Date = AgedAt(1826, 18)],
               [base EXCEPT !.Last_Transaction_Date = AgedAt(1210, 18)],
               [base EXCEPT !.Last_Transaction_Date = AgedAt(1211, 18)] }
        \cup (IF a = "ledger"
              THEN { [base EXCEPT !.Account_Balance = Num(b)] : b \in BoundaryBalances }
              ELSE {})
        \cup (IF a = "checker"
              THEN { [base EXCEPT !.Email_Contact_Attempt = e, !.SMS_Contact_Attempt = m,
                                  !.Phone_Call_Attempt = c] :
                        e \in FlagValues, m \in FlagValues, c \in FlagValues }
                   \cup { [base EXCEPT !.Account_Balance = Num(b)] : b \in BoundaryBalances }
                   \cup { [base EXCEPT !.Branch = Blank],
                          [base EXCEPT !.Customer_Type = Blank] }
              ELSE {})

\* the most rows a multi-row file has
MaxRows == 2

RECURSIVE Tables(_, _)
\* the sequences of at most n rows of R
Tables(R, n) ==
    IF n = 0 THEN {<<>>}
    ELSE LET T == Tables(R, n - 1)
         IN  T \cup {Append(t, r) : t \in {u \in T : Len(u) = n - 1}, r \in R}

Files(a) == Tables(SmallRows(a), MaxRows) \cup {<<r>> : r \in RichRows(a)}

Params(iy, types, low, medium, high) ==
    [inactivity_years |-> iy, account_types |-> types,
     low_years |-> low, medium_years |-> medium, high_years |-> high]

\* the sidebar's defaults
DefaultParams == Params(300, {"Savings/Call/Current"}, 300, 400, 500)

\* the sidebar settings a Run Analysis click may read (years in hundredths)
ParamChoices ==
    { DefaultParams,
      Params(300, {}, 300, 400, 500),
      Params(300, {"Savings/Call/Current", "Fixed Deposit"}, 300, 400, 500),
      Params(350, {"Savings/Call/Current"}, 300, 350, 400),
      Params(300, {"Savings/Call/Current", "Fixed Deposit"}, 500, 400, 300),
      Params(300, {"Savings/Call/Current"}, 400, 400, 500) }

\* how many multiselects of a page may hold a selection other than their
\* default
MaxFilterEdits == 1

\* the number of multiselects whose selection f is not the default
Edits(f, dflt) == Cardinality({n \in DOMAIN dflt : f[n] # dflt[n]})

\* the Account Details multiselects: their options
FdOptions(d) ==
    [status_filter |-> unique(d, "Maturity_Status"), branch_filter |-> unique(d, "Branch")]

-----------------------------------------------------------------------------
(* The sessions.                                                           *)

Init ==
    /\ app \in Apps
    /\ uploaded_file = NoFile
    /\ today = Now
    /\ accounts_df = None
    /\ inactive_accounts = None
    /\ results = None
    /\ categorized_results = None
    /\ summary_stats = None
    /\ params = DefaultParams
    /\ filtered_df = NotShown
    /\ df = None
    /\ view = None
    /\ outcome = NoRun
    /\ calls = {}

checker_vars == <<accounts_df, inactive_accounts, results, categorized_results,
                  summary_stats, params, filtered_df>>

\* a run of main() ends in state o, the Data Table showing table and the
\* Export tab its reports
Becomes(o, table) ==
    /\ view' = Export(o)
    /\ accounts_df' = o.accounts_df
    /\ inactive_accounts' = o.inactive_accounts
    /\ results' = o.results
    /\ categorized_results' = o.categorized_results
    /\ summary_stats' = o.summary_stats
    /\ outcome' = o.outcome
    /\ filtered_df' = table

DataTableDefault(o) ==
    IF IsNone(o.categorized_results) THEN NotShown
    ELSE DataTable(o, DefaultFilters(o.categorized_results))

\* The user uploads a file to the Account Inactivity Checker: the script
\* reruns and loads it.
Upload ==
    /\ app = "checker"
    /\ uploaded_file.none
    /\ \E f \in Files(app) :
          /\ uploaded_file' = File(f)
          /\ \E o \in main(File(f), FALSE, params) : Becomes(o, DataTableDefault(o))
    /\ UNCHANGED <<calls, app, today, params, df>>

\* The user sets the sidebar parameters and clicks Run Analysis.
RunAnalysis ==
    /\ app = "checker"
    /\ ~uploaded_file.none
    /\ \E p \in ParamChoices :
          /\ params' = p
          /\ \E o \in main(uploaded_file, TRUE, p) : Becomes(o, DataTableDefault(o))
    /\ UNCHANGED <<calls, app, uploaded_file, today, df>>

\* The user changes one multiselect of the Data Table tab (its options are
\* its defaults): the script reruns (the button is not pressed) and the
\* table is filtered anew.
EditFilters ==
    /\ app = "checker"
    /\ ~filtered_df.none
    /\ Edits(filtered_df.filters, DefaultFilters(categorized_results)) < MaxFilterEdits
    /\ \E o \in main(uploaded_file, FALSE, params) :
          \E n \in DOMAIN filtered_df.filters :
             \E sel \in SUBSET DefaultFilters(categorized_results)[n] :
                Becomes(o, DataTable(o, [filtered_df.filters EXCEPT ![n] = sel]))
    /\ UNCHANGED <<calls, app, uploaded_file, today, params, df>>

\* a one-page script ran and left r
Ran(r) ==
    /\ df' = r.df
    /\ view' = r.view
    /\ outcome' = r.outcome

UploadFD ==
    /\ app = "fd"
    /\ uploaded_file.none
    /\ \E f \in Files(app) : uploaded_file' = File(f) /\ Ran(fd_first_run(f, today))
    /\ UNCHANGED <<calls, app, today>>
    /\ UNCHANGED checker_vars

\* The user changes one multiselect of the Account Details tab.
EditFDFilters ==
    /\ app = "fd"
    /\ ~uploaded_file.none
    /\ ~view.details.none
    /\ Edits(view.details.filters, FdDefaultFilters(df)) < MaxFilterEdits
    /\ LET cm == calculate_maturity_status(read_csv(uploaded_file.rows), today)
       IN  \E n \in DOMAIN view.details.filters :
              \E sel \in SUBSET FdOptions(df)[n] :
                 Ran(fd_page(cm, [view.details.filters EXCEPT ![n] = sel]))
    /\ UNCHANGED <<calls, app, uploaded_file, today>>
    /\ UNCHANGED checker_vars

UploadInvestment ==
    /\ app \in {"investment", "safe_deposit"}
    /\ uploaded_file.none
    /\ \E f \in Files(app) :
          uploaded_file' = File(f) /\ Ran(investment_run(f, today, OwnType(app)))
    /\ UNCHANGED <<calls, app, today>>
    /\ UNCHANGED checker_vars

UploadInactiveAccount ==
    /\ app = "inactive_account"
    /\ uploaded_file.none
    /\ \E f \in Files(app) : uploaded_file' = File(f) /\ Ran(inactive_account_run(f, today))
    /\ UNCHANGED <<calls, app, today>>
    /\ UNCHANGED checker_vars

UploadTransfer ==
    /\ app = "transfer"
    /\ uploaded_file.none
    /\ \E f \in Files(app) : uploaded_file' = File(f) /\ Ran(transfer_run(f))
    /\ UNCHANGED <<calls, app, today>>
    /\ UNCHANGED checker_vars

UploadFreeze ==
    /\ app = "freeze"
    /\ uploaded_file.none
    /\ \E f \in Files(app) : uploaded_file' = File(f) /\ Ran(freeze_run(f))
    /\ UNCHANGED <<calls, app, today>>
    /\ UNCHANGED checker_vars

UploadLedger ==
    /\ app = "ledger"
    /\ uploaded_file.none
    /\ \E f \in Files(app) : uploaded_file' = File(f) /\ Ran(ledger_first_run(f))
    /\ UNCHANGED <<calls, app, today>>
    /\ UNCHANGED checker_vars

\* the user picks a category: the options are those of the table on the page
SelectLedger ==
    /\ app = "ledger"
    /\ ~uploaded_file.none
    /\ ~outcome.raised
    /\ \E c \in unique(df, "Dormant_Ledger_Category") : Ran(ledger_run(uploaded_file.rows, c))
    /\ UNCHANGED <<calls, app, uploaded_file, today>>
    /\ UNCHANGED checker_vars

Next ==
    \/ Upload
    \/ RunAnalysis
    \/ EditFilters
    \/ UploadFD
    \/ EditFDFilters
    \/ UploadInvestment
    \/ UploadInactiveAccount
    \/ UploadTransfer
    \/ UploadFreeze
    \/ UploadLedger
    \/ SelectLedger

Spec == Init /\ [][Next]_vars

-----------------------------------------------------------------------------
(* determine_category on its own: thresholds and elapsed years drawn from  *)
(* grids around each other, the function applied to them.                  *)

\* values of the three number_inputs, in hundredths of a year
ThresholdGrid == {300, 350, 400, 500}

\* values of years_inactive, in hundredths: at, just below and just above
\* the thresholds
YearGrid == {0, 299, 300, 301, 349, 350, 351, 399, 400, 401, 499, 500, 501, 1000}

\* the most calls a session of SpecTier makes
MaxCalls == 2

InitTier ==
    /\ app = "checker"
    /\ uploaded_file = NoFile
    /\ today = Now
    /\ accounts_df = None
    /\ inactive_accounts = None
    /\ results = None
    /\ categorized_results = None
    /\ summary_stats = None
    /\ params \in {Params(300, {"Savings/Call/Current"}, l, m, h) :
                      l \in ThresholdGrid, m \in ThresholdGrid, h \in ThresholdGrid}
    /\ filtered_df = NotShown
    /\ df = None
    /\ view = None
    /\ outcome = NoRun
    /\ calls = {}

\* result_df.apply calls determine_category on one more row
DetermineCategory ==
    /\ Cardinality(calls) < MaxCalls
    /\ \E e \in YearGrid :
          calls' = calls \cup
                     {[years_inactive |-> e,
                       ret |-> determine_category(e, params.low_years, params.medium_years,
                                                  params.high_years)]}
    /\ UNCHANGED <<app, uploaded_file, today, df, view, outcome>>
    /\ UNCHANGED checker_vars

NextTier == DetermineCategory

SpecTier == InitTier /\ [][NextTier]_vars

-----------------------------------------------------------------------------------------------------------------------------------------------------
(* The AccountInactivityChecker object on its own: constructed, then its   *)
(* methods called in any order, each call recorded with its result.        *)

\* the Last Transaction Date column of adf is the text read from the file
Unconverted(adf) ==
    \E i \in DOMAIN adf.rows : "nat" \notin DOMAIN adf.rows[i].Last_Transaction_Date

\* checker.identify_inactive_accounts(...) as a caller sees it, inactive
\* being self.inactive_accounts before the call: None without accounts_df;
\* a str column < cutoff_date raises TypeError before anything is assigned
identify_call(adf, inactive, now, inactivity_years, account_types) ==
    IF IsNone(adf)
    THEN {[raised |-> FALSE, ret |-> None, inactive_accounts |-> inactive]}
    ELSE IF Unconverted(adf)
    THEN {[raised |-> TRUE, ret |-> None, inactive_accounts |-> inactive]}
    ELSE {[raised |-> FALSE, ret |-> t, inactive_accounts |-> t] :
             t \in identify_inactive_accounts(adf, now, inactivity_years, account_types)}

\* checker.get_summary_stats() as a caller sees it: the balance statistics
\* of an object column of str raise
summary_call(inactive) ==
    IF /\ ~IsNone(inactive)
       /\ \E i \in DOMAIN inactive.rows : inactive.rows[i].Account_Balance.ty = "str"
    THEN [raised |-> TRUE, ret |-> None]
    ELSE [raised |-> FALSE, ret |-> get_summary_stats(inactive)]

\* the record of one call: the method, how the last load ended, and
\* self.inactive_accounts before and after
Call(op, before, after, raised, ret) ==
    [op |-> op, loaded |-> outcome.load, inactive_accounts |-> before, after |-> after,
     raised |-> raised, ret |-> ret]

InitStats ==
    /\ app = "checker"
    /\ today = Now
    /\ uploaded_file = NoFile
    /\ accounts_df = None
    /\ inactive_accounts = None
    /\ results = None
    /\ categorized_results = None
    /\ summary_stats = None
    /\ params = DefaultParams
    /\ filtered_df = NotShown
    /\ df = None
    /\ view = None
    /\ outcome = NoRun
    /\ calls = {}

\* checker.load_account_data(accounts_file)
LoadAccountData ==
    /\ uploaded_file.none
    /\ \E f \in Files("checker") :
          /\ uploaded_file' = File(f)
          /\ accounts_df' = load_account_data(f).accounts_df
          /\ outcome' = IF load_account_data(f).ret
                        THEN Outcome("ok", FALSE, FALSE, FALSE, {})
                        ELSE Outcome("failed", FALSE, FALSE, FALSE,
                                     {"Error loading account data"})
    /\ UNCHANGED <<app, today, inactive_accounts, results, categorized_results,
                   summary_stats, params, filtered_df, df, view, calls>>

\* checker.identify_inactive_accounts(inactivity_years, account_types)
IdentifyInactiveAccounts ==
    /\ Cardinality(calls) < MaxCalls
    /\ \E p \in ParamChoices :
          /\ params' = p
          /\ \E r \in identify_call(accounts_df, inactive_accounts, today,
                                    p.inactivity_years, p.account_types) :
                /\ inactive_accounts' = r.inactive_accounts
                /\ calls' = calls \cup {Call("identify_inactive_accounts", inactive_accounts,
                                             r.inactive_accounts, r.raised, r.ret)}
    /\ UNCHANGED <<app, uploaded_file, today, accounts_df, results, categorized_results,
                   summary_stats, filtered_df, df, view, outcome>>

\* one call of categorize_by_inactivity that ended as r
Categorized_call(r) ==
    /\ calls' = calls \cup {Call("categorize_by_inactivity", inactive_accounts,
                                 inactive_accounts, r.raised, r.ret)}
    /\ categorized_results' = IF r.raised THEN categorized_results ELSE r.ret

\* checker.categorize_by_inactivity(low_years, medium_years, high_years)
CategorizeByInactivity ==
    /\ Cardinality(calls) < MaxCalls
    /\ Categorized_call(categorize_by_inactivity(inactive_accounts, params.low_years,
                                                 params.medium_years, params.high_years))
    /\ UNCHANGED <<app, uploaded_file, today, accounts_df, inactive_accounts, results,
                   summary_stats, params, filtered_df, df, view, outcome>>

\* one call of get_summary_stats that ended as r
Summarised_call(r) ==
    /\ calls' = calls \cup {Call("get_summary_stats", inactive_accounts, inactive_accounts,
                                 r.raised, r.ret)}
    /\ summary_stats' = IF r.raised THEN summary_stats ELSE r.ret

\* checker.get_summary_stats()
GetSummaryStats ==
    /\ Cardinality(calls) < MaxCalls
    /\ Summarised_call(summary_call(inactive_accounts))
    /\ UNCHANGED <<app, uploaded_file, today, accounts_df, inactive_accounts, results,
                   categorized_results, params, filtered_df, df, view, outcome>>

NextStats ==
    \/ LoadAccountData
    \/ IdentifyInactiveAccounts
    \/ CategorizeByInactivity
    \/ GetSummaryStats

SpecStats == InitStats /\ [][NextStats]_vars

-----------------------------------------------------------------------------
(* The properties.  C1 and C2 are stated over SpecTier, the others over    *)
(* Spec.                                                                   *)

Tiers == {"MONITOR", "LOW", "MEDIUM", "HIGH"}

\* the order MONITOR < LOW < MEDIUM < HIGH
Rank(t) ==
    CASE t = "MONITOR" -> 0
      [] t = "LOW" -> 1
      [] t = "MEDIUM" -> 2
      [] t = "HIGH" -> 3
      [] OTHER -> 4

Ascending(p) == p.low_years < p.medium_years /\ p.medium_years < p.high_years

\* C1: for thresholds low < medium < high, every result of determine_category
\* is one of MONITOR, LOW, MEDIUM, HIGH, and of two calls the one with the
\* larger elapsed years never has the lower tier.
C1_TierMonotonic ==
    Ascending(params) =>
        /\ \A c \in calls : c.ret \in Tiers
        /\ \A c, d \in calls :
              c.years_inactive <= d.years_inactive => Rank(c.ret) <= Rank(d.ret)

C1_Witness ==
    /\ Ascending(params)
    /\ \E c, d \in calls :
          c.years_inactive < d.years_inactive /\ Rank(c.ret) < Rank(d.ret)

\* C2: for ascending thresholds, elapsed years equal to a threshold get the
\* tier below it (low: MONITOR, medium: LOW, high: MEDIUM), and elapsed years
\* above medium and at most high get MEDIUM.
C2_BoundaryExact ==
    Ascending(params) =>
        \A c \in calls :
            /\ c.years_inactive = params.low_years => c.ret = "MONITOR"
            /\ c.years_inactive = params.medium_years => c.ret = "LOW"
            /\ c.years_inactive = params.high_years => c.ret = "MEDIUM"
            /\ (/\ c.years_inactive > params.medium_years
                /\ c.years_inactive <= params.high_years) => c.ret = "MEDIUM"

C2_Witness ==
    /\ Ascending(params)
    /\ \E c, d \in calls :
          /\ c.years_inactive = params.medium_years /\ c.ret = "LOW"
          /\ d.years_inactive = params.medium_years + 1 /\ d.ret = "MEDIUM"

\* C3: a Run Analysis that finds inactive accounts under thresholds that are
\* not strictly ascending reports a configuration error and classifies
\* nothing: the run stores no categorized results.
C3_NonAscendingRejected ==
    (/\ app = "checker"
     /\ outcome.ran
     /\ ~Empty(inactive_accounts)
     /\ ~Ascending(params)) =>
        /\ outcome.messages \ {"No inactive accounts found"} # {}
        /\ ~outcome.categorized

\* the tier a row has with respect to threshold t, which opens tier k: at
\* least k when its true elapsed time days_inactive / 365 exceeds t, below k
\* otherwise
TierAgrees(r, t, k) ==
    IF r.days_inactive * 100 > t * DaysPerYear
    THEN Rank(r.inactivity_category) >= k
    ELSE Rank(r.inactivity_category) < k

\* C4: after identify_inactive_accounts and categorize_by_inactivity, every
\* row's tier is the tier of days_inactive / 365: the rounding of
\* years_inactive to two decimals moves no row across a threshold.
C4_TierOfTrueElapsedTime ==
    (app = "checker" /\ outcome.categorized /\ Ascending(params)) =>
        \A i \in DOMAIN categorized_results.rows :
            /\ TierAgrees(categorized_results.rows[i], params.low_years, 1)
            /\ TierAgrees(categorized_results.rows[i], params.medium_years, 2)
            /\ TierAgrees(categorized_results.rows[i], params.high_years, 3)

\* the number of a row's three contact flags that read "yes" whatever their
\* case
YesFlags(r) ==
    (IF Lower(r.Email_Contact_Attempt) = "yes" THEN 1 ELSE 0)
    + (IF Lower(r.SMS_Contact_Attempt) = "yes" THEN 1 ELSE 0)
    + (IF Lower(r.Phone_Call_Attempt) = "yes" THEN 1 ELSE 0)

\* C5: the contact tier of every categorized row follows the number of its
\* flags equal to "Yes" compared case-insensitively: 0 gives No Contact, 1 or
\* 2 Partial Contact, 3 Full Contact.
C5_ContactTierCaseInsensitive ==
    (app = "checker" /\ outcome.categorized) =>
        \A i \in DOMAIN categorized_results.rows :
            categorized_results.rows[i].contact_status =
                (CASE YesFlags(categorized_results.rows[i]) = 0 -> "No Contact"
                   [] YesFlags(categorized_results.rows[i]) = 3 -> "Full Contact"
                   [] OTHER -> "Partial Contact")

\* a date field of the file that is empty, or text that is no date
UnknownDate(cell) == cell.nan \/ ~ParseDatetime(cell.s).ok

\* the accounts of the uploaded file whose Last Transaction Date is unknown
UnknownIds ==
    {uploaded_file.rows[i].Account_ID :
        i \in {j \in DOMAIN uploaded_file.rows :
                  UnknownDate(uploaded_file.rows[j].Last_Transaction_Date)}}

Ids(d) == {d.rows[i].Account_ID : i \in DOMAIN d.rows}

\* C6: an account whose Last Transaction Date is unknown is in no result of
\* identify_inactive_accounts, has Inactive Flag false and a Maturity Status
\* other than Inactive wherever calculate_maturity_status set them, and is in
\* no investment or safe-deposit violation table.
C6_UnknownDateNeverSelected ==
    /\ (app = "checker" /\ ~IsNone(inactive_accounts)) =>
            Ids(inactive_accounts) \cap UnknownIds = {}
    /\ (app = "checker" /\ ~IsNone(results)) => Ids(results) \cap UnknownIds = {}
    /\ (app = "fd" /\ ~IsNone(df) /\ "Inactive_Flag" \in df.columns) =>
            \A i \in DOMAIN df.rows :
                df.rows[i].Account_ID \in UnknownIds =>
                    /\ ~df.rows[i].Inactive_Flag
                    /\ df.rows[i].Maturity_Status # "Inactive"
    /\ (app \in {"investment", "safe_deposit"} /\ ~IsNone(view)) =>
            Ids(view) \cap UnknownIds = {}

C6_Witness ==
    /\ app = "checker"
    /\ UnknownIds # {}
    /\ ~IsNone(inactive_accounts)
    /\ ~Empty(inactive_accounts)

\* the rows of the uploaded file whose date is text that is no date
BadDateRows ==
    {i \in DOMAIN uploaded_file.rows :
        /\ ~uploaded_file.rows[i].Last_Transaction_Date.nan
        /\ ~ParseDatetime(uploaded_file.rows[i].Last_Transaction_Date.s).ok}

\* C7: when a date of the uploaded file cannot be parsed, load_account_data
\* and calculate_maturity_status still succeed: the checker's load is ok with
\* that row's date NaT, and the FD table has its computed columns.
C7_BadDateDoesNotAbort ==
    (~uploaded_file.none /\ BadDateRows # {}) =>
        /\ app = "checker" =>
              /\ outcome.load = "ok"
              /\ \A i \in BadDateRows : accounts_df.rows[i].Last_Transaction_Date = NaT
        /\ app = "fd" => "Maturity_Status" \in df.columns

\* the column a one-page script adds to every row
StatusColumn ==
    CASE app = "transfer" -> "Transfer_Status"
      [] app = "freeze" -> "Freeze_Status"
      [] OTHER -> "Dormant_Ledger_Category"

\* C8: in the transfer, freeze and ledger scripts a file with an empty Last
\* Transaction Date is processed to the end: no exception ends the run and
\* every row has its status.
C8_MissingDateDoesNotAbort ==
    (/\ app \in {"transfer", "freeze", "ledger"}
     /\ ~uploaded_file.none
     /\ \E i \in DOMAIN uploaded_file.rows : uploaded_file.rows[i].Last_Transaction_Date.nan) =>
        /\ ~outcome.raised
        /\ StatusColumn \in df.columns

\* C9: for a file with a non-numeric Account Balance load_account_data
\* reports failure, and identify_inactive_accounts never runs on it.
C9_TextBalanceFailsLoad ==
    (/\ app = "checker"
     /\ ~uploaded_file.none
     /\ \E i \in DOMAIN uploaded_file.rows : uploaded_file.rows[i].Account_Balance.ty = "str") =>
        /\ outcome.load = "failed"
        /\ IsNone(inactive_accounts)

\* the rows of the FD table that are Fixed Deposit accounts
FdRows == SelectSeq(df.rows, LAMBDA r : r.Account_Type = "Fixed Deposit")

\* C10 (as the code has it): an empty account-type, branch or customer-type
\* selection of the checker's Data Table shows no row, and an empty
\* account_types makes identify_inactive_accounts return no row; an empty
\* inactivity-category or amount-category selection, and an empty
\* maturity-status or branch selection of the FD tracker, leaves that filter
\* unapplied: the table shows every row the other selections admit.
C10_EmptySelection ==
    /\ (app = "checker" /\ ~filtered_df.none) =>
          /\ (\/ filtered_df.filters.account_type_filter = {}
              \/ filtered_df.filters.branch_filter = {}
              \/ filtered_df.filters.customer_type_filter = {}) =>
                 filtered_df.df.rows = <<>>
          /\ filtered_df.filters.category_filter = {} =>
                 filtered_df.df.rows =
                    SelectSeq(categorized_results.rows,
                       LAMBDA r : /\ r.Account_Type \in filtered_df.filters.account_type_filter
                                  /\ r.Branch \in filtered_df.filters.branch_filter
                                  /\ r.Customer_Type \in filtered_df.filters.customer_type_filter
                                  /\ \/ filtered_df.filters.amount_filter = {}
                                     \/ r.amount_category \in filtered_df.filters.amount_filter)
          /\ filtered_df.filters.amount_filter = {} =>
                 filtered_df.df.rows =
                    SelectSeq(categorized_results.rows,
                       LAMBDA r : /\ r.Account_Type \in filtered_df.filters.account_type_filter
                                  /\ r.Branch \in filtered_df.filters.branch_filter
                                  /\ r.Customer_Type \in filtered_df.filters.customer_type_filter
                                  /\ \/ filtered_df.filters.category_filter = {}
                                     \/ r.inactivity_category \in filtered_df.filters.category_filter)
    /\ (app = "checker" /\ outcome.ran /\ params.account_types = {}) =>
          inactive_accounts.rows = <<>>
    /\ (app = "fd" /\ ~uploaded_file.none /\ ~view.details.none) =>
          /\ view.details.filters.status_filter = {} =>
                 view.details.df.rows =
                    SelectSeq(FdRows,
                       LAMBDA r : \/ view.details.filters.branch_filter = {}
                                  \/ r.Branch \in view.details.filters.branch_filter)
          /\ view.details.filters.branch_filter = {} =>
                 view.details.df.rows =
                    SelectSeq(FdRows,
                       LAMBDA r : \/ view.details.filters.status_filter = {}
                                  \/ r.Maturity_Status \in view.details.filters.status_filter)

C10_Witness ==
    /\ app = "checker"
    /\ ~filtered_df.none
    /\ filtered_df.filters.category_filter = {}
    /\ filtered_df.df.rows # <<>>

\* C10 (as stated): with any multiselect of the checker's Data Table or of
\* the FD tracker's Account Details left empty, the filtered table has no
\* rows.
C10_EmptySelectsNothing ==
    /\ (/\ app = "checker"
        /\ ~filtered_df.none
        /\ \E n \in DOMAIN filtered_df.filters : filtered_df.filters[n] = {}) =>
          filtered_df.df.rows = <<>>
    /\ (/\ app = "fd"
        /\ ~uploaded_file.none
        /\ ~view.details.none
        /\ \E n \in DOMAIN view.details.filters : view.details.filters[n] = {}) =>
          view.details.df.rows = <<>>

\* a loaded row that is of a chosen account type and whose last transaction
\* lies at least inactivity_years x 365 days back
Qualifies(r, p) ==
    /\ r.Account_Type \in p.account_types
    /\ ~r.Last_Transaction_Date.nat
    /\ today - r.Last_Transaction_Date.ts >= InactivityDelta(p.inactivity_years)

\* C11: identify_inactive_accounts returns exactly the accounts of a chosen
\* type whose elapsed time is at least inactivity_years x 365 days, the
\* account exactly at the cutoff included.
C11_IdentifyExact ==
    (app = "checker" /\ outcome.ran) =>
        \A i \in DOMAIN accounts_df.rows :
            Qualifies(accounts_df.rows[i], params)
                <=> accounts_df.rows[i].Account_ID \in Ids(inactive_accounts)

\* a date field that reads, up to a "T", as a date on or before 2020-04-24
OnOrBeforeTransferCutoff(cell) ==
    /\ ~cell.nan
    /\ ParseYMD(SplitT0(cell.s)).ok
    /\ ParseYMD(SplitT0(cell.s)).days <= DaysFromCivil(2020, 4, 24)

\* C12: every row of the transfer script is Eligible for Transfer exactly
\* when its date is known and on or before 2020-04-24 (a time after "T"
\* ignored), Not Eligible otherwise (an unknown date included), and the
\* eligible view holds exactly the eligible rows.
C12_TransferCutoffInclusive ==
    (app = "transfer" /\ ~uploaded_file.none) =>
        /\ ~outcome.raised
        /\ \A i \in DOMAIN uploaded_file.rows :
              df.rows[i].Transfer_Status =
                 (IF OnOrBeforeTransferCutoff(uploaded_file.rows[i].Last_Transaction_Date)
                  THEN "Eligible for Transfer"
                  ELSE "Not Eligible")
        /\ view.rows = SelectSeq(df.rows, LAMBDA r : r.Transfer_Status = "Eligible for Transfer")

\* a date field that is a date on or before 2022-01-01, the freeze cutoff
OnOrBeforeFreezeCutoff(cell) ==
    /\ ~cell.nan
    /\ ParseDatetime(cell.s).ok
    /\ ParseDatetime(cell.s).ts < (DaysFromCivil(2022, 1, 1) + 1) * SecondsPerDay

\* C13: every row of the freeze script is Frozen exactly when its Account
\* Status is Dormant, its Last Transaction Date is on or before the freeze
\* cutoff 2022-01-01 and its KYC Status is Expired, and Active otherwise,
\* whatever the order of the three tests (so no row raises).
C13_FreezeConjunction ==
    (app = "freeze" /\ ~uploaded_file.none) =>
        /\ ~outcome.raised
        /\ \A i \in DOMAIN uploaded_file.rows :
              df.rows[i].Freeze_Status =
                 (IF /\ uploaded_file.rows[i].Account_Status = "Dormant"
                     /\ OnOrBeforeFreezeCutoff(uploaded_file.rows[i].Last_Transaction_Date)
                     /\ uploaded_file.rows[i].KYC_Status = "Expired"
                  THEN "Frozen"
                  ELSE "Active")

\* C14: no step changes the table it is given: after
\* categorize_by_inactivity the checker's inactive_accounts is still a table
\* identify_inactive_accounts returns, after calculate_maturity_status the
\* table read from the file is as it was read, and after the unreachable
\* computation of inactive_account.py the table is as it was after the date
\* conversion.
C14_InputsNotMutated ==
    /\ (app = "checker" /\ outcome.categorized) =>
          inactive_accounts \in
             identify_inactive_accounts(accounts_df, today, params.inactivity_years,
                                        params.account_types)
    /\ (app = "fd" /\ ~uploaded_file.none) => df = read_csv(uploaded_file.rows)
    /\ (app = "inactive_account" /\ ~uploaded_file.none) =>
          df = to_datetime(read_csv(uploaded_file.rows), TRUE).df

RECURSIVE SumOver(_, _)
\* the sum of the counts f over the keys K
SumOver(f, K) ==
    IF K = {} THEN 0
    ELSE LET k == CHOOSE x \in K : TRUE IN f[k] + SumOver(f, K \ {k})

CountsTotal(f) == SumOver(f, DOMAIN f)

\* C15: the per-type, per-branch and per-customer-type counts of the
\* summary each add up to the number of inactive rows.
C15_CountsSumToTotal ==
    (app = "checker" /\ outcome.categorized) =>
        /\ CountsTotal(summary_stats.type_counts) = Len(inactive_accounts.rows)
        /\ CountsTotal(summary_stats.branch_counts) = Len(inactive_accounts.rows)
        /\ CountsTotal(summary_stats.customer_type_counts) = Len(inactive_accounts.rows)

\* C16: get_summary_stats called while the inactive-account set is an empty
\* table returns a summary, not None and not an error, whose counts are all
\* empty.
C16_EmptySummaryWellDefined ==
    \A c \in calls :
        (/\ c.op = "get_summary_stats"
         /\ ~IsNone(c.inactive_accounts) /\ Empty(c.inactive_accounts)) =>
            /\ ~c.raised
            /\ ~c.ret.none
            /\ DOMAIN c.ret.type_counts = {}
            /\ DOMAIN c.ret.branch_counts = {}
            /\ DOMAIN c.ret.customer_type_counts = {}

\* the FD tracker computed its table, and the table has no Fixed Deposit row
\* or no inactive one
NoInactiveFd ==
    /\ app = "fd"
    /\ ~uploaded_file.none
    /\ "Maturity_Status" \in df.columns
    /\ \A i \in DOMAIN df.rows :
          ~(df.rows[i].Account_Type = "Fixed Deposit" /\ df.rows[i].Inactive_Flag)

ZeroPercentages ==
    /\ ~view.dashboard.none
    /\ view.dashboard.inactive_percent[1] = 0
    /\ \A k \in 1..4 : view.dashboard.percentages[k][1] = 0

\* C17: with no Fixed Deposit account, or none of them inactive, the FD
\* tracker reports the inactive percentage and the four contact percentages
\* as 0 and the run ends without an error.
C17_EmptyFdCompletes ==
    NoInactiveFd =>
        /\ ZeroPercentages
        /\ "Error processing the file" \notin outcome.messages
        /\ ~view.details.none

RECURSIVE IsSubsequence(_, _)
\* the rows s occur in t in the same relative order
IsSubsequence(s, t) ==
    IF s = <<>> THEN TRUE
    ELSE IF t = <<>> THEN FALSE
    ELSE IF Head(s) = Head(t) THEN IsSubsequence(Tail(s), Tail(t))
    ELSE IsSubsequence(s, Tail(t))

NonIncreasing(rws) ==
    \A i \in 1..Len(rws) - 1 : rws[i].days_inactive >= rws[i + 1].days_inactive

\* the tables the Export tab offers
ExportSubsets ==
    {view.high_df, view.savings_df, view.no_contact_df, view.high_amount_df}
        \cup {view.category_df[c] : c \in DOMAIN view.category_df}

\* C18: the rows of the Data Table and of every export subset are rows of
\* categorized_results in the order they have there, and categorized_results
\* is in non-increasing order of days_inactive.
C18_FilteringPreservesOrder ==
    (app = "checker" /\ ~filtered_df.none) =>
        /\ NonIncreasing(categorized_results.rows)
        /\ IsSubsequence(filtered_df.df.rows, categorized_results.rows)
        /\ ~view.none
        /\ \A e \in ExportSubsets : IsSubsequence(e.rows, categorized_results.rows)

\* the file's rows were reordered by the sort, and the Data Table and an
\* export subset each hold two rows of different age
C18_Witness ==
    /\ app = "checker"
    /\ ~filtered_df.none
    /\ Len(uploaded_file.rows) = 2
    /\ uploaded_file.rows[1].Account_ID = "ACC2"
    /\ Len(filtered_df.df.rows) = 2
    /\ filtered_df.df.rows[1].Account_ID = "ACC1"
    /\ filtered_df.df.rows[1].days_inactive > filtered_df.df.rows[2].days_inactive
    /\ Len(view.savings_df.rows) = 2
    /\ Len(view.no_contact_df.rows) = 1

\* C19: a categorized row's amount_category is HIGH when its balance is above
\* 300000, MEDIUM when it is above 100000 and at most 300000, LOW otherwise.
C19_AmountTier ==
    (app = "checker" /\ ~IsNone(categorized_results)) =>
        \A i \in DOMAIN categorized_results.rows :
            LET r == categorized_results.rows[i]
            IN  /\ r.Account_Balance.ty = "int"
                /\ r.amount_category =
                      (IF r.Account_Balance.v > 300000 THEN "HIGH"
                       ELSE IF r.Account_Balance.v > 100000 THEN "MEDIUM"
                       ELSE "LOW")

\* a categorized row with balance exactly 300000 is MEDIUM
C19_Witness ==
    /\ app = "checker"
    /\ ~IsNone(categorized_results)
    /\ \E i \in DOMAIN categorized_results.rows :
          /\ categorized_results.rows[i].Account_Balance = Num(300000)
          /\ categorized_results.rows[i].amount_category = "MEDIUM"

\* no rows are held in the session table d
HoldsNoRows(d) == IsNone(d) \/ Empty(d)

\* C20: after a Run Analysis that found no inactive accounts, the session's
\* results, categorized_results and summary_stats hold nothing of an earlier
\* run, and the page shows neither a Data Table nor export reports.
C20_NoStaleResults ==
    (app = "checker" /\ outcome.ran /\ "No inactive accounts found" \in outcome.messages) =>
        /\ HoldsNoRows(results)
        /\ HoldsNoRows(categorized_results)
        /\ summary_stats.none
        /\ filtered_df.none
        /\ view.none

\* C21: after a Run Analysis that found inactive accounts, summary_stats
\* holds category_counts, amount_counts and contact_counts, each equal to the
\* per-tier row counts of that run's categorized_results.
C21_SummaryHasTierCounts ==
    (app = "checker" /\ outcome.categorized) =>
        /\ {"category_counts", "amount_counts", "contact_counts"} \subseteq summary_stats.keys
        /\ summary_stats.category_counts
              = value_counts(categorized_results, "inactivity_category")
        /\ summary_stats.amount_counts = value_counts(categorized_results, "amount_category")
        /\ summary_stats.contact_counts = value_counts(categorized_results, "contact_status")

\* the row r of a categorized table without the columns categorization adds
Uncategorized(r, cols) == [c \in cols |-> r[c]]

\* the rows of cat are the rows of res, in the same order
SameRows(cat, res) ==
    /\ Len(cat.rows) = Len(res.rows)
    /\ \A i \in DOMAIN res.rows :
          Uncategorized(cat.rows[i], DOMAIN res.rows[i]) = res.rows[i]

C23_FailedLoadKeepsTable ==
    [][(app = "checker" /\ outcome'.load = "failed") => accounts_df' = accounts_df]_vars

Unset(d) == IsNone(d) \/ Empty(d)

\* C24: identify_inactive_accounts called while no load_account_data has
\* succeeded returns None, raises nothing and leaves inactive_accounts as it
\* was; categorize_by_inactivity and get_summary_stats called while
\* inactive_accounts is unset or empty return None and raise nothing.
C24_GuardedAgainstOutOfOrderUse ==
    \A c \in calls :
        /\ (c.op = "identify_inactive_accounts" /\ c.loaded # "ok") =>
              ~c.raised /\ c.ret.none /\ c.after = c.inactive_accounts
        /\ (c.op \in {"categorize_by_inactivity", "get_summary_stats"}
              /\ Unset(c.inactive_accounts)) =>
              ~c.raised /\ c.ret.none

\* the status of a date `days` whole days old: the band of days / 365.25
\* (days * 100 against years * 36525)
MaturityBand(days) ==
    IF days * 100 < 36525 THEN "Active"
    ELSE IF days * 100 < 2 * 36525 THEN "Approaching Inactivity"
    ELSE IF days * 100 < 3 * 36525 THEN "High Risk"
    ELSE "Inactive"

\* row i of the FD table has the status of its date, 'Unknown' when the
\* file's date is unknown, and its Inactive Flag says whether it is Inactive
StatusOfDate(i) ==
    /\ df.rows[i].Maturity_Status =
          (IF UnknownDate(uploaded_file.rows[i].Last_Transaction_Date) THEN "Unknown"
           ELSE MaturityBand(DaysBetween(today, df.rows[i].Last_Transaction_Date)))
    /\ df.rows[i].Inactive_Flag <=> df.rows[i].Maturity_Status = "Inactive"

SummaryAddsUp(su) ==
    /\ su.active_fd + su.inactive_fd = su.total_fd
    /\ su.total_fd = Len(FdRows)
    /\ su.inactive_fd = Len(SelectSeq(FdRows, LAMBDA r : r.Maturity_Status = "Inactive"))

\* C25: calculate_maturity_status gives every row of the uploaded file the
\* Maturity Status of its elapsed years (days / 365.25), 'Unknown' exactly
\* when its date is unknown, with Inactive Flag true exactly for 'Inactive';
\* generate_account_summary then has active_fd + inactive_fd = total_fd and
\* inactive_fd the number of 'Inactive' Fixed Deposit rows.
C25_MaturityStatusBands ==
    (app = "fd" /\ ~uploaded_file.none) =>
        /\ "Maturity_Status" \in df.columns
        /\ \A i \in DOMAIN df.rows : StatusOfDate(i)
        /\ SummaryAddsUp(generate_account_summary(df))

LedgerCategories ==
    {"High-Value Dormant Ledger", "Low-Value Dormant Ledger", "Standard Dormant Ledger"}

\* the file's date cell is an ISO date, and one before 2021-12-31
IsoDate(cell) == ~cell.nan /\ ParseDatetime(cell.s).ok

Before2021_12_31(cell) == ParseDatetime(cell.s).ts < DaysFromCivil(2021, 12, 31) * SecondsPerDay

\* every balance of the uploaded file is a number and every date is text
NumericAndDated ==
    \A i \in DOMAIN uploaded_file.rows :
        /\ uploaded_file.rows[i].Account_Balance.ty = "int"
        /\ ~uploaded_file.rows[i].Last_Transaction_Date.nan

\* the category of a row with balance b and the ISO date of cell
LedgerRule(b, cell) ==
    IF b > 100000 /\ Before2021_12_31(cell) THEN "High-Value Dormant Ledger"
    ELSE IF b <= 100000 /\ Before2021_12_31(cell) THEN "Low-Value Dormant Ledger"
    ELSE "Standard Dormant Ledger"

\* C26: over a file of numeric balances, classify_ledger gives every row one
\* of the three categories, and a row with an ISO date the one its balance
\* (above 100000 or not) and its date (before 2021-12-31 or not) call for;
\* the view of the selected ledger type holds exactly the rows of that
\* category, in the table's order.
C26_LedgerClassification ==
    (app = "ledger" /\ ~uploaded_file.none /\ NumericAndDated) =>
        /\ ~outcome.raised
        /\ \A i \in DOMAIN df.rows :
              /\ df.rows[i].Dormant_Ledger_Category \in LedgerCategories
              /\ IsoDate(uploaded_file.rows[i].Last_Transaction_Date) =>
                    df.rows[i].Dormant_Ledger_Category =
                       LedgerRule(uploaded_file.rows[i].Account_Balance.v,
                                  uploaded_file.rows[i].Last_Transaction_Date)
        /\ view.df.rows =
              SelectSeq(df.rows, LAMBDA r : r.Dormant_Ledger_Category = view.ledger_category)

\* a two-row file of two categories, the view holding the one Low-Value row
C26_Witness ==
    /\ app = "ledger"
    /\ ~uploaded_file.none
    /\ NumericAndDated
    /\ Len(df.rows) = 2
    /\ df.rows[1].Dormant_Ledger_Category = "High-Value Dormant Ledger"
    /\ df.rows[2].Dormant_Ledger_Category = "Low-Value Dormant Ledger"
    /\ view.ledger_category = "Low-Value Dormant Ledger"
    /\ Len(view.df.rows) = 1

====
